---- MODULE Spec2Model ----
(***************************************************************************)
(* Model of golog's viewer loop (src/main.go): the appState record, the    *)
(* per-iteration viewport/cursor resynchronisation and drawUI at the top   *)
(* of mainLoop, and one action per case of the event switch.               *)
(*                                                                         *)
(* A line of the document is modelled by its byte length: the code only    *)
(* ever reads len(state.lines[i]) and slices of a line.                    *)
(***************************************************************************)
EXTENDS Integers, Sequences, FiniteSets, TLC

VARIABLES state, pc, ev, pre, cursor

vars == <<state, pc, ev, pre, cursor>>

(* ------------------------------ bounds -------------------------------- *)
MaxLines == 3
FilenameLen == 1

MaxDelta == 2

MaxH == MaxLines + 3

\* A line is either empty or holds two bytes.
LineLens == {0, 2}

\* strings.Split never returns an empty slice: a document has >= 1 line.
Documents == UNION { [1..n -> LineLens] : n \in 1..MaxLines }

\* Screen widths: one column (no room for the border), two columns (an empty
\* content region) and four columns (a content region two cells wide).
Widths == {1, 2, 4}
\* Screen heights from one row (contentHeight = -2) to a content region that
\* holds the longest document.
Heights == 1..MaxH
\* A mouse event reports a cell of the terminal, which may have been resized
\* since the loop last read screen.Size().
MouseXs == 0..3
MouseYs == 0..(MaxH - 1)

(* ------------------------------ helpers ------------------------------- *)
NumLines(s) == Len(s.lines)

LineLength(s, i) == s.lines[i + 1]

InDoc(s, i) == i >= 0 /\ i < NumLines(s)

contentHeight(s) == s.screenHeight - 3

\* Go's integer division truncates toward zero.
GoDiv2(n) == IF n >= 0 THEN n \div 2 ELSE -((-n) \div 2)

maxStart(s) ==
  LET m == NumLines(s) - contentHeight(s) IN IF m < 0 THEN 0 ELSE m

RECURSIVE Digits(_)
Digits(n) == IF n < 10 THEN 1 ELSE 1 + Digits(n \div 10)

(* --------------------------- top of mainLoop -------------------------- *)
SetSize(s, w, h) == [s EXCEPT !.screenWidth = w, !.screenHeight = h]

\* Variant: scrolls up by one line instead of to the cursor's line.
TrackUp_OneLine(s) ==
  IF s.currentLine < s.startLine
    THEN [s EXCEPT !.startLine = s.startLine - 1]
    ELSE s

TrackUp(s) ==
  IF s.currentLine < s.startLine
    THEN [s EXCEPT !.startLine = s.currentLine]
    ELSE s

\* Variant: the "+ 1" of line 65 is missing.
TrackDown_OffByOne(s) ==
  IF s.currentLine >= s.startLine + contentHeight(s)
    THEN [s EXCEPT !.startLine = s.currentLine - contentHeight(s)]
    ELSE s

TrackDown(s) ==
  IF s.currentLine >= s.startLine + contentHeight(s)
    THEN [s EXCEPT !.startLine = s.currentLine - contentHeight(s) + 1]
    ELSE s

\* Variant: the clamp stops one past the append point.
ClampCol_OffByOne(s) ==
  IF s.currentCol > LineLength(s, s.currentLine) + 1
    THEN [s EXCEPT !.currentCol = LineLength(s, s.currentLine) + 1]
    ELSE s

ClampCol(s) ==
  IF s.currentCol > LineLength(s, s.currentLine)
    THEN [s EXCEPT !.currentCol = LineLength(s, s.currentLine)]
    ELSE s

ResyncPanics(s) == ~InDoc(s, s.currentLine)

Resync(s, w, h) == ClampCol(TrackDown(TrackUp(SetSize(s, w, h))))

(* ------------------------------- drawUI ------------------------------- *)
RowDrawn(s, i) == i >= 0 /\ i < contentHeight(s) /\ s.startLine + i < NumLines(s)

RowEnd(s, i) ==
  LET len == LineLength(s, s.startLine + i)
      e == s.startCol + (s.screenWidth - 2)
  IN IF e > len THEN len ELSE e

RowPanics(s, i) ==
  \/ s.startLine + i < 0
  \/ /\ s.startLine + i >= 0
     /\ s.startCol < LineLength(s, s.startLine + i)
     /\ (s.startCol < 0 \/ RowEnd(s, i) < s.startCol)

StatusLen(s) ==
  1 + FilenameLen + 9 + Digits(s.currentLine + 1) + 1 + Digits(NumLines(s))
    + 8 + Digits(s.currentCol + 1) + 1

StatusPanics(s) == StatusLen(s) > s.screenWidth - 2 /\ s.screenWidth - 2 < 0

DrawPanics(s) ==
  \/ \E i \in 0..(MaxH + 3) : RowDrawn(s, i) /\ RowPanics(s, i)
  \/ StatusPanics(s)

\* Variant: "relX <= w-2" instead of "<".
CursorShown_Inclusive(s) ==
  LET relY == s.currentLine - s.startLine
      relX == s.currentCol - s.startCol
  IN relY >= 0 /\ relY < contentHeight(s) /\ relX >= 0 /\ relX <= s.screenWidth - 2

CursorShown(s) ==
  LET relY == s.currentLine - s.startLine
      relX == s.currentCol - s.startCol
  IN relY >= 0 /\ relY < contentHeight(s) /\ relX >= 0 /\ relX < s.screenWidth - 2

\* The screen's cursor after screen.HideCursor().
HiddenCursor == [shown |-> FALSE, x |-> 0, y |-> 0]

\* The screen's cursor after lines 241-247.
DrawCursor(s) ==
  IF CursorShown(s)
    THEN [shown |-> TRUE, x |-> (s.currentCol - s.startCol) + 1,
          y |-> (s.currentLine - s.startLine) + 1]
    ELSE HiddenCursor

(* ----------------------------- moveCursor ----------------------------- *)
\* Variant: "newLine <= len(state.lines)" instead of "<".
MoveLine_OffByOne(s, dy) ==
  IF dy # 0 /\ s.currentLine + dy >= 0 /\ s.currentLine + dy <= NumLines(s)
    THEN [s EXCEPT !.currentLine = s.currentLine + dy]
    ELSE s

\* Variant: a move past either end of the document wraps around.
MoveLine_Wrap(s, dy) ==
  IF dy = 0 THEN s
  ELSE IF s.currentLine + dy >= NumLines(s) THEN [s EXCEPT !.currentLine = 0]
  ELSE IF s.currentLine + dy < 0 THEN [s EXCEPT !.currentLine = NumLines(s) - 1]
  ELSE [s EXCEPT !.currentLine = s.currentLine + dy]

MoveLine(s, dy) ==
  IF dy # 0 /\ InDoc(s, s.currentLine + dy)
    THEN [s EXCEPT !.currentLine = s.currentLine + dy]
    ELSE s

\* Variant: a column move scrolls the viewport horizontally to the cursor.
MoveCol_AutoScroll(s, dx) ==
  IF dx # 0 /\ s.currentCol + dx >= 0
            /\ s.currentCol + dx <= LineLength(s, s.currentLine)
    THEN [s EXCEPT !.currentCol = s.currentCol + dx,
                   !.startCol = IF s.currentCol + dx - s.startCol >= s.screenWidth - 2
                                  THEN s.startCol + 1 ELSE s.startCol]
    ELSE s

MoveCol(s, dx) ==
  IF dx # 0 /\ s.currentCol + dx >= 0
            /\ s.currentCol + dx <= LineLength(s, s.currentLine)
    THEN [s EXCEPT !.currentCol = s.currentCol + dx]
    ELSE s

\* Variant: a cursor move cancels a pending "g".
moveCursor_ClearsChord(s, dy, dx) ==
  [MoveCol(MoveLine(s, dy), dx) EXCEPT !.lastGPress = FALSE]

\* Variant: the column is checked against the line the cursor leaves.
moveCursor_ColFirst(s, dy, dx) == MoveLine(MoveCol(s, dx), dy)

moveCursor(s, dy, dx) == MoveCol(MoveLine(s, dy), dx)

moveCursorPanics(s, dy, dx) ==
  dx # 0 /\ ~InDoc(MoveLine(s, dy), MoveLine(s, dy).currentLine)

(* ------------------------- viewport commands -------------------------- *)
ClampLow(s) == IF s.startLine < 0 THEN [s EXCEPT !.startLine = 0] ELSE s

ClampHigh(s) ==
  IF s.startLine > maxStart(s) THEN [s EXCEPT !.startLine = maxStart(s)] ELSE s

WheelUp(s) == ClampLow([s EXCEPT !.startLine = s.startLine - 3])

\* Variant: the wheel drags the cursor along when it leaves the viewport.
WheelDown_DragsCursor(s) ==
  LET s1 == ClampHigh([s EXCEPT !.startLine = s.startLine + 3])
  IN IF s1.currentLine < s1.startLine /\ InDoc(s1, s1.startLine)
       THEN [s1 EXCEPT !.currentLine = s1.startLine]
       ELSE s1

WheelDown(s) == ClampHigh([s EXCEPT !.startLine = s.startLine + 3])

PageUp(s) == ClampLow([s EXCEPT !.startLine = s.startLine - contentHeight(s)])

\* Variant: Ctrl-F without the maxStart clamp of lines 135-141.
PageDown_NoClamp(s) == [s EXCEPT !.startLine = s.startLine + contentHeight(s)]

PageDown(s) == ClampHigh([s EXCEPT !.startLine = s.startLine + contentHeight(s)])

HalfPageDown(s) ==
  ClampHigh([s EXCEPT !.startLine = s.startLine + GoDiv2(contentHeight(s))])

HalfPageUp(s) ==
  ClampLow([s EXCEPT !.startLine = s.startLine - GoDiv2(contentHeight(s))])

(* -------------------------------- click ------------------------------- *)
\* Variant: "y <= h-2" instead of "<": the lower border row takes clicks.
ClickAccepted_BorderRow(s, x, y) ==
  y >= 1 /\ y <= s.screenHeight - 2 /\ s.startLine + (y - 1) < NumLines(s)

\* Variant: the row is taken zero-based, "y" instead of "y - 1".
Click_ZeroBasedRow(s, x, y) ==
  IF y >= 1 /\ y < s.screenHeight - 2 /\ s.startLine + y < NumLines(s)
    THEN LET line == s.startLine + y
             raw == s.startCol + (x - 1)
             col == IF raw > LineLength(s, line) THEN LineLength(s, line) ELSE raw
         IN IF col >= 0
              THEN [s EXCEPT !.currentLine = line, !.currentCol = col]
              ELSE [s EXCEPT !.currentLine = line]
    ELSE s

ClickAccepted(s, x, y) ==
  y >= 1 /\ y < s.screenHeight - 2 /\ s.startLine + (y - 1) < NumLines(s)

\* Variant: the column is taken zero-based, "x" instead of "x - 1".
ClickCol_ZeroBased(s, x, y) ==
  LET clickLine == s.startLine + (y - 1)
      raw == s.startCol + x
  IN IF raw > LineLength(s, clickLine) THEN LineLength(s, clickLine) ELSE raw

ClickCol(s, x, y) ==
  LET clickLine == s.startLine + (y - 1)
      raw == s.startCol + (x - 1)
  IN IF raw > LineLength(s, clickLine) THEN LineLength(s, clickLine) ELSE raw

Click(s, x, y) ==
  IF ClickAccepted(s, x, y)
    THEN LET s1 == [s EXCEPT !.currentLine = s.startLine + (y - 1)]
         IN IF ClickCol(s, x, y) >= 0
              THEN [s1 EXCEPT !.currentCol = ClickCol(s, x, y)]
              ELSE s1
    ELSE s

ClickPanics(s, x, y) == ClickAccepted(s, x, y) /\ s.startLine + (y - 1) < 0

(* ------------------------------ the chord ----------------------------- *)
\* Variant: the second "g" jumps but leaves the flag set.
PressG_NoClear(s) ==
  IF s.lastGPress
    THEN [s EXCEPT !.currentLine = 0]
    ELSE [s EXCEPT !.lastGPress = TRUE]

PressG(s) ==
  IF s.lastGPress
    THEN [s EXCEPT !.currentLine = 0, !.lastGPress = FALSE]
    ELSE [s EXCEPT !.lastGPress = TRUE]

PressShiftG(s) ==
  [s EXCEPT !.currentLine = NumLines(s) - 1, !.lastGPress = FALSE]

(* ------------------------------ the loop ------------------------------ *)
NoEvent == [kind |-> "none", x |-> 0, y |-> 0]

\* Only the Button1 case reads the event's position.
Key(k) == [kind |-> k, x |-> 0, y |-> 0]

Mouse(k, x, y) == [kind |-> k, x |-> x, y |-> y]

InitState(doc) ==
  [lines |-> doc, startLine |-> 0, startCol |-> 0, currentLine |-> 0,
   currentCol |-> 0, screenWidth |-> 0, screenHeight |-> 0,
   lastGPress |-> FALSE]

Init ==
  /\ \E doc \in Documents : state = InitState(doc)
  /\ pc = "top"
  /\ ev = NoEvent
  /\ pre = state
  /\ cursor = HiddenCursor

\* One pass over lines 55-74: screen.Size(), the vertical tracking, the
\* column clamp and drawUI; then the loop blocks in PollEvent.
Render ==
  /\ pc = "top"
  /\ \E w \in Widths, h \in Heights :
       IF ResyncPanics(SetSize(state, w, h))
         THEN /\ state' = TrackDown(TrackUp(SetSize(state, w, h)))
              /\ pc' = "panic"
         ELSE /\ state' = Resync(state, w, h)
              /\ pc' = IF DrawPanics(state') THEN "panic" ELSE "poll"
  /\ ev' = NoEvent
  /\ pre' = state'
  /\ cursor' = IF pc' = "panic" THEN cursor ELSE DrawCursor(state')

\* The event e is consumed from PollEvent and its case leaves the state s2.
Handle(e, s2, panics) ==
  /\ pc = "poll"
  /\ ev' = e
  /\ pre' = state
  /\ cursor' = cursor
  /\ IF panics
       THEN pc' = "panic" /\ state' = state
       ELSE pc' = "top" /\ state' = s2

\* Variant: the 'q' rune falls through to the next iteration.
Quit_NotOnQ(e) ==
  /\ pc = "poll"
  /\ ev' = e
  /\ pre' = state
  /\ pc' = IF e.kind = "q" THEN "top" ELSE "done"
  /\ state' = state
  /\ cursor' = cursor

Quit(e) ==
  /\ pc = "poll"
  /\ ev' = e
  /\ pre' = state
  /\ pc' = "done"
  /\ state' = state
  /\ cursor' = cursor

EvResize == Handle(Key("Resize"), state, FALSE)

EvWheelUp == Handle(Key("WheelUp"), WheelUp(state), FALSE)

EvWheelDown == Handle(Key("WheelDown"), WheelDown(state), FALSE)

EvButton1 ==
  \E x \in MouseXs, y \in MouseYs :
    Handle(Mouse("Button1", x, y), Click(state, x, y), ClickPanics(state, x, y))

EvMouseOther == Handle(Key("MouseOther"), state, FALSE)

EvKeyEscape == Quit(Key("KeyEscape"))

EvKeyCtrlC == Quit(Key("KeyCtrlC"))

EvKeyDown ==
  Handle(Key("KeyDown"), moveCursor(state, 1, 0), moveCursorPanics(state, 1, 0))

EvKeyUp ==
  Handle(Key("KeyUp"), moveCursor(state, -1, 0), moveCursorPanics(state, -1, 0))

EvKeyRight ==
  Handle(Key("KeyRight"), moveCursor(state, 0, 1), moveCursorPanics(state, 0, 1))

EvKeyLeft ==
  Handle(Key("KeyLeft"), moveCursor(state, 0, -1), moveCursorPanics(state, 0, -1))

EvKeyCtrlB == Handle(Key("KeyCtrlB"), PageUp(state), FALSE)

EvKeyCtrlF == Handle(Key("KeyCtrlF"), PageDown(state), FALSE)

EvKeyCtrlD == Handle(Key("KeyCtrlD"), HalfPageDown(state), FALSE)

EvKeyCtrlU == Handle(Key("KeyCtrlU"), HalfPageUp(state), FALSE)

EvRuneJ ==
  Handle(Key("j"), moveCursor(state, 1, 0), moveCursorPanics(state, 1, 0))

EvRuneK ==
  Handle(Key("k"), moveCursor(state, -1, 0), moveCursorPanics(state, -1, 0))

EvRuneH ==
  Handle(Key("h"), moveCursor(state, 0, -1), moveCursorPanics(state, 0, -1))

EvRuneL ==
  Handle(Key("l"), moveCursor(state, 0, 1), moveCursorPanics(state, 0, 1))

EvRuneQ == Quit(Key("q"))

EvRuneG == Handle(Key("g"), PressG(state), FALSE)

EvRuneShiftG == Handle(Key("G"), PressShiftG(state), FALSE)

\* Variant: a key without a case cancels a pending "g".
EvKeyOther_ClearsChord ==
  Handle(Key("KeyOther"), [state EXCEPT !.lastGPress = FALSE], FALSE)

EvKeyOther == Handle(Key("KeyOther"), state, FALSE)

Next ==
  \/ Render
  \/ EvResize
  \/ EvWheelUp
  \/ EvWheelDown
  \/ EvButton1
  \/ EvMouseOther
  \/ EvKeyEscape
  \/ EvKeyCtrlC
  \/ EvKeyDown
  \/ EvKeyUp
  \/ EvKeyRight
  \/ EvKeyLeft
  \/ EvKeyCtrlB
  \/ EvKeyCtrlF
  \/ EvKeyCtrlD
  \/ EvKeyCtrlU
  \/ EvRuneJ
  \/ EvRuneK
  \/ EvRuneH
  \/ EvRuneL
  \/ EvRuneQ
  \/ EvRuneG
  \/ EvRuneShiftG
  \/ EvKeyOther

Spec == Init /\ [][Next]_vars

(* ------------------------------ properties ---------------------------- *)
AfterCommand == pc = "top" /\ ev.kind # "none"

AfterResync == pc = "poll"

\* C1: in every reachable state, after a command and after the resync,
\* 0 <= currentLine < len(lines).
C1_CurrentLineInDocument ==
  state.currentLine >= 0 /\ state.currentLine < NumLines(state)

\* A click has moved the cursor to the last line of a longer document.
C1_Witness ==
  /\ AfterCommand
  /\ ev.kind = "Button1"
  /\ NumLines(state) > 1
  /\ pre.currentLine = 0
  /\ state.currentLine = NumLines(state) - 1

\* C2 as stated: 0 <= currentCol <= len(lines[currentLine]) holds right
\* after every command as well as after the resync.
C2_ColInLineAlways ==
  state.currentCol >= 0 /\ state.currentCol <= LineLength(state, state.currentLine)

\* C2 amended: currentCol >= 0 always, and currentCol <= len(lines[currentLine])
\* once the resync at the top of the loop has run (before every render); a
\* command that changes the line may leave the column past the new line's end
\* until then.
C2_ColInLineAfterResync ==
  /\ state.currentCol >= 0
  /\ pc # "top" => state.currentCol <= LineLength(state, state.currentLine)

\* After the resync the cursor sits at the append point of a non-empty line
\* below the first one.
C2_Witness ==
  /\ AfterResync
  /\ state.currentLine > 0
  /\ LineLength(state, state.currentLine) > 0
  /\ state.currentCol = LineLength(state, state.currentLine)

\* C3 as stated: after each command and after each resync,
\* 0 <= startLine <= max(0, len(lines) - contentHeight).
C3_StartLineBounded ==
  (AfterCommand \/ AfterResync) =>
    (state.startLine >= 0 /\ state.startLine <= maxStart(state))

C5_NeverPanics == pc # "panic"

\* C6: with contentHeight > 0 the resync sets startLine to currentLine when
\* the cursor is above the viewport, to currentLine - contentHeight + 1 when
\* it is below, and leaves it alone otherwise; on a 100-line document with
\* screenHeight 10, cursor line 50 from startLine 0 gives 44 and cursor line 0
\* then gives 0.
C6_Expected(s, h) ==
  IF s.currentLine < s.startLine THEN s.currentLine
  ELSE IF s.currentLine >= s.startLine + (h - 3) THEN s.currentLine - (h - 3) + 1
  ELSE s.startLine

C6_Example ==
  LET s0 == [InitState([i \in 1..100 |-> 0]) EXCEPT !.currentLine = 50]
      s1 == Resync(s0, 80, 10)
      s2 == Resync([s1 EXCEPT !.currentLine = 0], 80, 10)
  IN s1.startLine = 44 /\ s2.startLine = 0

C7_MoveDown == ev.kind \in {"KeyDown", "j"}

C7_MoveUp == ev.kind \in {"KeyUp", "k"}

C7_ClampNoOp ==
  (/\ AfterCommand
   /\ \/ C7_MoveDown /\ pre.currentLine = NumLines(pre) - 1
      \/ C7_MoveUp /\ pre.currentLine = 0) =>
    /\ state = pre
    /\ Resync(state, pre.screenWidth, pre.screenHeight) = pre

\* Arrow-down was pressed on the last line of a document of several lines.
C7_Witness ==
  /\ AfterCommand
  /\ ev.kind = "KeyDown"
  /\ NumLines(pre) > 1
  /\ pre.currentLine = NumLines(pre) - 1

\* C8: with lastGPress false, "g" sets it and changes nothing else; the next
\* "g" (only the resync in between) sets currentLine = 0 and clears it.
C8_ChordGesture ==
  [][/\ (pc = "poll" /\ ev'.kind = "g" /\ ~state.lastGPress) =>
          state' = [state EXCEPT !.lastGPress = TRUE]
     /\ (pc = "poll" /\ ev'.kind = "g" /\ state.lastGPress) =>
          state' = [state EXCEPT !.currentLine = 0, !.lastGPress = FALSE]
     /\ pc = "top" => state'.lastGPress = state.lastGPress]_vars

\* The second "g" has taken the cursor from a lower line to line 0.
C8_Witness ==
  /\ AfterCommand
  /\ ev.kind = "g"
  /\ pre.lastGPress
  /\ pre.currentLine > 0
  /\ state.currentLine = 0
  /\ ~state.lastGPress

\* C9 as stated: while lastGPress is set, every command other than "g"
\* leaves it set.
C9_ChordSticky ==
  (AfterCommand /\ pre.lastGPress /\ ev.kind # "g") => state.lastGPress

\* C9 amended: while lastGPress is set, every command other than "g" and "G"
\* (and the resync) leaves it set, "G" clears it, and a "g" pressed while it
\* is set jumps to line 0 and clears it; so g, arrow-down, g ends on line 0
\* with the flag clear.
C9_ChordStickyExceptG ==
  [][/\ (pc = "poll" /\ state.lastGPress /\ ev'.kind \notin {"g", "G"}) =>
          state'.lastGPress
     /\ (pc = "top" /\ state.lastGPress) => state'.lastGPress
     /\ (pc = "poll" /\ ev'.kind = "G") => ~state'.lastGPress
     /\ (pc = "poll" /\ state.lastGPress /\ ev'.kind = "g") =>
          (state'.currentLine = 0 /\ ~state'.lastGPress)]_vars

\* Arrow-down moved the cursor while a "g" was pending, and it still is.
C9_Witness ==
  /\ AfterCommand
  /\ ev.kind = "KeyDown"
  /\ pre.lastGPress
  /\ state.currentLine = pre.currentLine + 1
  /\ state.lastGPress

\* C10: Ctrl-F never leaves startLine above max(0, len(lines) - contentHeight)
\* and Ctrl-B never leaves it below 0.
C10_PageScrollBounded ==
  /\ (AfterCommand /\ ev.kind = "KeyCtrlF") => state.startLine <= maxStart(state)
  /\ (AfterCommand /\ ev.kind = "KeyCtrlB") => state.startLine >= 0

\* Ctrl-F asked for a full page and was stopped at maxStart.
C10_Witness ==
  /\ AfterCommand
  /\ ev.kind = "KeyCtrlF"
  /\ contentHeight(pre) > 0
  /\ pre.startLine + contentHeight(pre) > maxStart(pre)
  /\ state.startLine = maxStart(state)
  /\ state.startLine > pre.startLine

\* A click the claims call accepted: on a content row, on a line of the
\* document.
ClaimClickAccepted(s, e) ==
  /\ e.kind = "Button1"
  /\ 1 <= e.y /\ e.y < s.screenHeight - 2
  /\ s.startLine + e.y - 1 < NumLines(s)

Min(a, b) == IF a < b THEN a ELSE b

\* C11: an accepted click at (x, y) sets currentLine = startLine + (y - 1);
\* with raw = startCol + (x - 1) it sets currentCol = min(raw, len(line)) when
\* raw >= 0 and leaves currentCol alone when raw < 0. With startLine = 5,
\* startCol = 2, a click at (4, 3) gives line 7 and column min(5, len(line 7)).
C11_Example ==
  LET s0 == [InitState([i \in 1..10 |-> IF i = 8 THEN 3 ELSE 9])
               EXCEPT !.startLine = 5, !.startCol = 2, !.currentLine = 5,
                      !.screenWidth = 80, !.screenHeight = 10]
      s1 == Click(s0, 4, 3)
  IN ClickAccepted(s0, 4, 3) /\ s1.currentLine = 7 /\ s1.currentCol = 3

C11_ClickMapping ==
  /\ C11_Example
  /\ (AfterCommand /\ ClaimClickAccepted(pre, ev)) =>
       LET raw == pre.startCol + (ev.x - 1)
       IN /\ state.currentLine = pre.startLine + (ev.y - 1)
          /\ raw >= 0 =>
               state.currentCol = Min(raw, LineLength(pre, state.currentLine))
          /\ raw < 0 => state.currentCol = pre.currentCol
          /\ state = [pre EXCEPT !.currentLine = state.currentLine,
                                 !.currentCol = state.currentCol]

\* A click past the end of an empty line below the cursor's line: the line is
\* taken and the column is cut to the line's length.
C11_Witness ==
  /\ AfterCommand
  /\ ClaimClickAccepted(pre, ev)
  /\ ev.x >= 2
  /\ pre.currentCol > 0
  /\ state.currentLine > pre.currentLine
  /\ state.currentCol = 0

\* A click on the left border column: the line is taken, the column is kept.
C11_WitnessBorder ==
  /\ AfterCommand
  /\ ClaimClickAccepted(pre, ev)
  /\ ev.x = 0
  /\ pre.currentCol > 0
  /\ state.currentLine # pre.currentLine
  /\ state.currentCol = pre.currentCol

QuitKinds == {"q", "KeyEscape", "KeyCtrlC"}

\* C12: consuming 'q', Escape or Ctrl-C leaves the loop at once, from any
\* state, and consuming any other event never does (nor does it fail): after
\* an event the loop has exited exactly if the event was one of the three.
C12_ExitContract ==
  /\ pc = "done" <=> ev.kind \in QuitKinds
  /\ ev.kind \in QuitKinds => state = pre
  /\ (ev.kind # "none" /\ ev.kind \notin QuitKinds) => pc = "top"

\* 'q' ended the loop while a "g" was pending.
C12_Witness ==
  /\ pc = "done"
  /\ ev.kind = "q"
  /\ state.lastGPress

\* C13: no command and no resync changes startCol: it is 0 in every
\* reachable state, also while the cursor's column is outside the visible
\* columns [startCol, startCol + screenWidth - 2).
C13_StartColFixed == state.startCol = 0

\* After the resync the cursor is right of the last visible column of a
\* screen that has a content region, and the viewport has not followed.
C13_Witness ==
  /\ AfterResync
  /\ state.screenWidth > 2
  /\ state.currentCol >= state.startCol + state.screenWidth - 2
  /\ ~cursor.shown
  /\ contentHeight(state) > 0

ScrollKinds ==
  {"WheelUp", "WheelDown", "KeyCtrlB", "KeyCtrlF", "KeyCtrlU", "KeyCtrlD"}

ScrollUpKinds == {"WheelUp", "KeyCtrlB", "KeyCtrlU"}

\* The delta the claims give each viewport command.
ScrollDelta(s, kind) ==
  CASE kind = "WheelUp" -> -3
    [] kind = "WheelDown" -> 3
    [] kind = "KeyCtrlB" -> -contentHeight(s)
    [] kind = "KeyCtrlF" -> contentHeight(s)
    [] kind = "KeyCtrlU" -> -GoDiv2(contentHeight(s))
    [] kind = "KeyCtrlD" -> GoDiv2(contentHeight(s))

Clamp(v, lo, hi) == IF v < lo THEN lo ELSE IF v > hi THEN hi ELSE v

\* C14 as stated: every viewport command sets startLine to
\* clamp(startLine + delta, 0, max(0, len(lines) - contentHeight)), the upward
\* ones included.
C14_ScrollIsClamp ==
  (AfterCommand /\ ev.kind \in ScrollKinds) =>
    state.startLine =
      Clamp(pre.startLine + ScrollDelta(pre, ev.kind), 0, maxStart(pre))

CursorOf(s) ==
  [currentLine |-> s.currentLine, currentCol |-> s.currentCol,
   lastGPress |-> s.lastGPress]

Deltas == (-MaxDelta)..MaxDelta

\* The loop is polling on a screen that shows the whole document.
InitMove ==
  /\ \E doc \in Documents : state = Resync(InitState(doc), 4, MaxH)
  /\ pc = "poll"
  /\ ev = NoEvent
  /\ pre = state
  /\ cursor = DrawCursor(state)

\* One call moveCursor(state, dy, dx); ev records the arguments (x = dx,
\* y = dy) and pre the state passed in.
MoveStep ==
  \E dy \in Deltas, dx \in Deltas :
    /\ pc = "poll"
    /\ ev' = Mouse("moveCursor", dx, dy)
    /\ pre' = state
    /\ cursor' = cursor
    /\ IF moveCursorPanics(state, dy, dx)
         THEN pc' = "panic" /\ state' = MoveLine(state, dy)
         ELSE pc' = pc /\ state' = moveCursor(state, dy, dx)

SpecMove == InitMove /\ [][MoveStep]_vars

\* C16: moveCursor(dLine, dCol) takes currentLine + dLine if it lies in the
\* document and else keeps the line (no stop at the boundary), then takes
\* currentCol + dCol if it lies in [0, len(the line after the line change)]
\* and else keeps the column; nothing else changes.
C16_MovedLine(s, dLine) ==
  IF s.currentLine + dLine >= 0 /\ s.currentLine + dLine <= NumLines(s) - 1
    THEN s.currentLine + dLine
    ELSE s.currentLine

C16_MovedCol(s, dLine, dCol) ==
  IF /\ s.currentCol + dCol >= 0
     /\ s.currentCol + dCol <= LineLength(s, C16_MovedLine(s, dLine))
    THEN s.currentCol + dCol
    ELSE s.currentCol

C16_MoveCursorAxes ==
  ev.kind = "moveCursor" =>
    /\ pc = "poll"
    /\ state = [pre EXCEPT !.currentLine = C16_MovedLine(pre, ev.y),
                           !.currentCol = C16_MovedCol(pre, ev.y, ev.x)]

\* A diagonal move onto a longer line took a column the old line does not
\* have.
C16_Witness ==
  /\ ev.kind = "moveCursor"
  /\ ev.x # 0 /\ ev.y # 0
  /\ state.currentLine = pre.currentLine + ev.y
  /\ state.currentCol = pre.currentCol + ev.x
  /\ state.currentCol > LineLength(pre, pre.currentLine)

\* A move of two lines from the line before the last one is refused, it does
\* not stop on the last line.
C16_WitnessNoStop ==
  /\ ev.kind = "moveCursor"
  /\ ev.y = 2
  /\ NumLines(pre) >= 2
  /\ pre.currentLine = NumLines(pre) - 2
  /\ state.currentLine = pre.currentLine

\* C17: a Button1 click on a row outside the content rows (y < 1 or
\* y >= screenHeight - 2) or on a row past the document's last line
\* (startLine + (y - 1) >= len(lines)) leaves the whole state unchanged.
C17_RejectedClickNoOp ==
  (/\ AfterCommand
   /\ ev.kind = "Button1"
   /\ \/ ev.y < 1
      \/ ev.y >= pre.screenHeight - 2
      \/ pre.startLine + (ev.y - 1) >= NumLines(pre)) =>
    state = pre

\* A click on the lower border row of a screen whose content region ends
\* inside the document, at a column that differs from the cursor's.
C17_Witness ==
  /\ AfterCommand
  /\ ev.kind = "Button1"
  /\ contentHeight(pre) > 0
  /\ ev.y = pre.screenHeight - 2
  /\ pre.startLine + (ev.y - 1) < NumLines(pre)
  /\ ev.x - 1 # pre.currentCol
  /\ state = pre

\* A click on a content row below the document's last line.
C17_WitnessPastEnd ==
  /\ AfterCommand
  /\ ev.kind = "Button1"
  /\ ev.y >= 1 /\ ev.y < pre.screenHeight - 2
  /\ pre.startLine + (ev.y - 1) >= NumLines(pre)
  /\ state = pre

\* C18: at every render the cursor is shown exactly if
\* 0 <= currentLine - startLine < contentHeight and
\* 0 <= currentCol - startCol < screenWidth - 2, then at the cell
\* (currentCol - startCol + 1, currentLine - startLine + 1), and is hidden
\* otherwise; drawing leaves the state as the resync left it.
C18_Visible(s) ==
  /\ 0 <= s.currentLine - s.startLine
  /\ s.currentLine - s.startLine < s.screenHeight - 3
  /\ 0 <= s.currentCol - s.startCol
  /\ s.currentCol - s.startCol < s.screenWidth - 2

C18_CursorIndicator ==
  [][(pc = "top" /\ pc' = "poll") =>
       /\ cursor'.shown <=> C18_Visible(state')
       /\ cursor'.shown =>
            /\ cursor'.x = state'.currentCol - state'.startCol + 1
            /\ cursor'.y = state'.currentLine - state'.startLine + 1
       /\ state' = Resync(state, state'.screenWidth, state'.screenHeight)]_vars

\* The cursor is shown in the second column of the second content row.
C18_Witness ==
  /\ AfterResync
  /\ cursor.shown
  /\ cursor.x = 2
  /\ cursor.y = 2
  /\ state.currentLine = state.startLine + 1

UnrecognizedKinds == {"KeyOther", "MouseOther", "Resize"}

\* C19: from a state the resync produced, an unrecognized key or mouse event
\* or a resize event changes nothing, and the resync that follows, reading
\* the same screen size, changes nothing either (contentHeight <= 0 included).
C19_ResyncIdempotent ==
  (AfterCommand /\ ev.kind \in UnrecognizedKinds) =>
    /\ state = pre
    /\ Resync(state, pre.screenWidth, pre.screenHeight) = pre

\* An unrecognized key arrived on a screen with no content row, after the
\* cursor had left line 0 with a "g" pending.
C19_Witness ==
  /\ AfterCommand
  /\ ev.kind = "KeyOther"
  /\ contentHeight(pre) <= 0
  /\ pre.currentLine > 0
  /\ pre.lastGPress

\* C20: an accepted click lands on a row of the viewport, so the resync that
\* follows it, reading the same screen size, leaves startLine unchanged.
C20_ClickNeverScrolls ==
  (AfterCommand /\ ClaimClickAccepted(pre, ev)) =>
    /\ state.startLine = pre.startLine
    /\ state.currentLine >= pre.startLine
    /\ state.currentLine < pre.startLine + contentHeight(pre)
    /\ Resync(state, pre.screenWidth, pre.screenHeight).startLine = pre.startLine

\* A click on the last content row of a scrolled viewport moved the cursor
\* there.
C20_Witness ==
  /\ AfterCommand
  /\ ClaimClickAccepted(pre, ev)
  /\ pre.startLine > 0
  /\ contentHeight(pre) > 1
  /\ ev.y = contentHeight(pre)
  /\ state.currentLine # pre.currentLine

====
